---- MODULE Spec2Model ----
(***************************************************************************)
(* A model of aplwin-sf: the APL+Win byte decoder (encoding.py) and the    *)
(* component-file scanner (parser.py).                                     *)
(*                                                                         *)
(* Bytes are integers 0..255 and a byte buffer is a sequence of them.      *)
(* A Python str is a sequence of Unicode code points.  Python offsets are  *)
(* 0-based; sequences here are 1-based, so data[o] of the code is          *)
(* data[o + 1] of the model.                                               *)
(***************************************************************************)
EXTENDS Integers, Sequences, FiniteSets, TLC

VARIABLES
    data,       \* read_file: the buffer scanned
    idx,        \* read_file: the search cursor
    pos,        \* read_file: position of the last marker found (-1: none)
    functions,  \* read_file: the records emitted so far
    iterations, \* read_file: how many times the loop body has been entered
    pc,         \* where the running function is
    subs,       \* fixture: the sub-objects the buffer was built from
    blobs,      \* fixture: the blobs placed around them
    dec_data,   \* decode: its argument
    dec_i,      \* decode: number of bytes consumed by the for loop
    parts,      \* decode: the list of strings appended so far
    dec_out,    \* decode: the string returned
    header_line,  \* _parse_function_name: its argument
    name_out    \* _parse_function_name: the string returned

vars ==
    <<data, idx, pos, functions, iterations, pc, subs, blobs, dec_data, dec_i,
      parts, dec_out, header_line, name_out>>

scanVars == <<data, idx, pos, functions, iterations, subs, blobs>>
decVars == <<dec_data, dec_i, parts, dec_out>>
nameVars == <<header_line, name_out>>

(***************************************************************************)
(* Generic helpers on sequences.                                           *)
(***************************************************************************)
Min(S) == CHOOSE x \in S : \A y \in S : x <= y

SeqsUpTo(S, n) == UNION {[1..k -> S] : k \in 0..n}

RECURSIVE Flatten(_)
Flatten(ss) == IF ss = <<>> THEN <<>> ELSE Head(ss) \o Flatten(Tail(ss))

\* s[a:b] of Python for 0 <= a, clipped to the sequence like a Python slice
Slice(s, a, b) ==
    LET hi == IF b > Len(s) THEN Len(s) ELSE b
    IN  IF a >= hi THEN <<>> ELSE [i \in 1..(hi - a) |-> s[a + i]]

Zeros(n) == [i \in 1..n |-> 0]

\* Body(v) with v evaluated once and then held as a value, the way an
\* assignment statement `x = v` followed by code that reads x computes it
With(v, Body(_)) == CHOOSE r \in {Body(x) : x \in {v}} : TRUE

(***************************************************************************)
(* encoding.py                                                             *)
(***************************************************************************)
\* the control-character region of the table (0x03..0x1F)
MapControl ==
    3 :> 9079 @@ 4 :> 8714 @@ 5 :> 168 @@ 6 :> 8592 @@ 11 :> 8834 @@ 13 :> 10
    @@ 14 :> 8835 @@ 15 :> 9055 @@ 19 :> 9067 @@ 22 :> 9068 @@ 23 :> 9077 @@ 24 :> 8593
    @@ 25 :> 215 @@ 26 :> 8594 @@ 28 :> 8867 @@ 29 :> 8866 @@ 30 :> 9035 @@ 31 :> 9042

\* the high region of the table (0x80..0xFF)
MapHigh ==
    128 :> 199 @@ 129 :> 252 @@ 130 :> 233 @@ 131 :> 226 @@ 132 :> 228 @@ 133 :> 224
    @@ 134 :> 9076 @@ 135 :> 231 @@ 136 :> 234 @@ 137 :> 235 @@ 138 :> 232 @@ 139 :> 9045
    @@ 140 :> 9038 @@ 141 :> 8595 @@ 142 :> 196 @@ 143 :> 215 @@ 144 :> 201 @@ 145 :> 8900
    @@ 146 :> 215 @@ 147 :> 244 @@ 148 :> 246 @@ 149 :> 9109 @@ 150 :> 251 @@ 151 :> 9054
    @@ 152 :> 9017 @@ 153 :> 214 @@ 154 :> 220 @@ 155 :> 162 @@ 156 :> 163 @@ 157 :> 165
    @@ 158 :> 9066 @@ 159 :> 9064 @@ 160 :> 225 @@ 161 :> 237 @@ 162 :> 243 @@ 163 :> 250
    @@ 164 :> 241 @@ 165 :> 209 @@ 166 :> 9053 @@ 167 :> 9024 @@ 168 :> 191 @@ 169 :> 9015
    @@ 170 :> 245 @@ 171 :> 248 @@ 172 :> 253 @@ 173 :> 161 @@ 174 :> 171 @@ 175 :> 187
    @@ 176 :> 9472 @@ 177 :> 9474 @@ 178 :> 9484 @@ 179 :> 9488 @@ 180 :> 9492 @@ 181 :> 9496
    @@ 182 :> 9500 @@ 183 :> 9508 @@ 184 :> 9516 @@ 185 :> 9524 @@ 186 :> 9532 @@ 187 :> 9581
    @@ 188 :> 9582 @@ 189 :> 9583 @@ 190 :> 9584 @@ 191 :> 8230 @@ 192 :> 192 @@ 193 :> 193
    @@ 194 :> 194 @@ 195 :> 195 @@ 196 :> 182 @@ 197 :> 197 @@ 198 :> 198 @@ 199 :> 402
    @@ 200 :> 200 @@ 201 :> 8482 @@ 202 :> 202 @@ 203 :> 203 @@ 204 :> 204 @@ 205 :> 205
    @@ 206 :> 206 @@ 207 :> 207 @@ 208 :> 169 @@ 209 :> 174 @@ 210 :> 210 @@ 211 :> 211
    @@ 212 :> 212 @@ 213 :> 213 @@ 214 :> 8776 @@ 215 :> 8778 @@ 216 :> 216 @@ 217 :> 217
    @@ 218 :> 218 @@ 219 :> 219 @@ 220 :> 8773 @@ 221 :> 221 @@ 222 :> 8803 @@ 223 :> 255
    @@ 224 :> 9082 @@ 225 :> 223 @@ 226 :> 9075 @@ 227 :> 9060 @@ 228 :> 8838 @@ 229 :> 9073
    @@ 230 :> 8869 @@ 231 :> 8868 @@ 232 :> 8970 @@ 233 :> 8854 @@ 234 :> 9074 @@ 235 :> 9023
    @@ 236 :> 8711 @@ 237 :> 9033 @@ 238 :> 8714 @@ 239 :> 175 @@ 240 :> 8801 @@ 241 :> 9049
    @@ 242 :> 8805 @@ 243 :> 8804 @@ 244 :> 9045 @@ 245 :> 9038 @@ 246 :> 247 @@ 247 :> 8222
    @@ 248 :> 8728 @@ 249 :> 9675 @@ 250 :> 8744 @@ 251 :> 9076 @@ 252 :> 8746 @@ 253 :> 8968
    @@ 254 :> 8739 @@ 255 :> 32

\* a table that also maps the ASCII tilde (to the APL tilde operator)
APL_MAP_TildeKey == MapControl @@ (126 :> 8764) @@ MapHigh

APL_MAP == MapControl @@ MapHigh

\* the code points of the guillemets that bracket a placeholder
LAQUO == 171
RAQUO == 187

\* one hexadecimal digit as a lowercase character ('0'..'9', 'a'..'f')
HexDigitLower(d) == IF d < 10 THEN 48 + d ELSE 97 + (d - 10)

RECURSIVE HexLower(_)
\* format(n, 'x'): the lowercase hexadecimal digits of n, no padding
HexLower(n) ==
    IF n < 16 THEN <<HexDigitLower(n)>>
    ELSE Append(HexLower(n \div 16), HexDigitLower(n % 16))

\* f'{b:x}': lowercase hexadecimal without the zero fill
Format02x_NoFill(b) == HexLower(b)

\* f'{b:02x}': lowercase hexadecimal, zero-filled to a width of at least 2
Format02x(b) ==
    LET h == HexLower(b) IN IF Len(h) < 2 THEN <<48>> \o h ELSE h

\* f'«{b:02x}»'
Placeholder(b) == <<LAQUO>> \o Format02x(b) \o <<RAQUO>>

\* one iteration of decode's for loop: the strings appended to parts for the
\* byte b (none in the LF branch, which is `pass`)
DecodeParts_NoLF(b) ==
    IF b \in DOMAIN APL_MAP THEN <<(<<APL_MAP[b]>>)>>
    ELSE IF 32 <= b /\ b <= 126 THEN <<(<<b>>)>>
    ELSE IF b = 9 THEN <<(<<9>>)>>
    ELSE <<Placeholder(b)>>

DecodeParts(b) ==
    IF b \in DOMAIN APL_MAP THEN <<(<<APL_MAP[b]>>)>>
    ELSE IF 32 <= b /\ b <= 126 THEN <<(<<b>>)>>
    ELSE IF b = 9 THEN <<(<<9>>)>>
    ELSE IF b = 10 THEN <<>>
    ELSE <<Placeholder(b)>>

RECURSIVE DecodeLoop(_)
\* parts after the for loop has consumed every byte of bytes
DecodeLoop(bytes) ==
    IF bytes = <<>> THEN <<>>
    ELSE DecodeParts(Head(bytes)) \o DecodeLoop(Tail(bytes))

\* decode(data): ''.join(parts)
decode(bytes) == With(DecodeLoop(bytes), Flatten)

(***************************************************************************)
(* parser.py                                                               *)
(*                                                                         *)
(* A uint32 is kept as its four little-endian bytes <<b0, b1, b2, b3>>:    *)
(* the model checker's integers are 32-bit signed and cannot hold every    *)
(* value struct.unpack reads.  Equality of two uint32 is equality of the   *)
(* bytes; order is decided from the most significant byte down.            *)
(***************************************************************************)
\* b"\x20\x20\x20\x20\xEC\x20"
FUNCTION_MARKER == <<32, 32, 32, 32, 236, 32>>

\* struct.pack("<I", n) for 0 <= n < 2^31
Pack(n) ==
    <<n % 256, (n \div 256) % 256, (n \div 65536) % 256, (n \div 16777216) % 256>>

\* a < b for two uint32
U32Less(a, b) ==
    \E k \in 1..4 : a[k] < b[k] /\ \A j \in (k + 1)..4 : a[j] = b[j]

\* the integer a uint32 below 2^31 stands for
IntOf(a) == a[1] + 256 * a[2] + 65536 * a[3] + 16777216 * a[4]

\* what _u32 gives when struct.unpack_from raises struct.error
StructError == <<>>

\* struct.unpack_from("<I", data, offset)[0]: a negative offset counts from
\* the end of the buffer; struct.error when the offset is out of range or
\* fewer than four bytes follow it
u32(d, offset) ==
    LET o == IF offset < 0 THEN offset + Len(d) ELSE offset
    IN  IF o < 0 \/ Len(d) - o < 4 THEN StructError
        ELSE <<d[o + 1], d[o + 2], d[o + 3], d[o + 4]>>

\* data.find(_FUNCTION_MARKER, idx): the least position >= idx where the
\* marker occurs, -1 if there is none
MarkerAt(d, p) ==
    /\ 0 <= p
    /\ p + 6 <= Len(d)
    /\ \A k \in 1..6 : d[p + k] = FUNCTION_MARKER[k]

Find(d, start) ==
    LET hits == {p \in start..(Len(d) - 6) : MarkerAt(d, p)}
    IN  IF hits = {} THEN -1 ELSE Min(hits)

\* header_off < 0
HeaderOffNegative_Never(header_off) == FALSE

HeaderOffNegative_OrZero(header_off) == header_off <= 0

HeaderOffNegative(header_off) == header_off < 0

\* the try block: the four fields read at header_off (_obj_size is read and
\* not used), or StructError when one of the reads raises
ReadHeader(d, header_off) ==
    LET obj_size  == u32(d, header_off)
        const     == u32(d, header_off + 4)
        text_len  == u32(d, header_off + 12)
        text_len2 == u32(d, header_off + 16)
    IN  IF StructError \in {obj_size, const, text_len, text_len2}
        THEN StructError
        ELSE [const |-> const, text_len |-> text_len, text_len2 |-> text_len2]

\* the literal of `text_len > 10_000_000`
MaxTextLen == 10000000

\* const != 1 or text_len != text_len2
BadConstOrRepeat_ConstOnly(h) == h.const # Pack(1)

BadConstOrRepeat(h) == h.const # Pack(1) \/ h.text_len # h.text_len2

\* text_len <= 0 or text_len > 10_000_000
BadLength_ZeroAllowed(h) == U32Less(Pack(MaxTextLen), h.text_len)

BadLength(h) ==
    \/ ~U32Less(Pack(0), h.text_len)
    \/ U32Less(Pack(MaxTextLen), h.text_len)

\* pos + text_len > len(data)   (text_len is at most 10_000_000 here)
PayloadTruncated_OffByOne(d, p, text_len) == p + IntOf(text_len) >= Len(d)

PayloadTruncated(d, p, text_len) == p + IntOf(text_len) > Len(d)

\* idx = pos + 6 on a false positive
FalsePositiveAdvance_OneByte(p) == p + 1

FalsePositiveAdvance(p) == p + 6

\* idx = pos + text_len after a match
MatchAdvance_MarkerOnly(p, text_len) == p + 6

MatchAdvance_PastPadding(p, text_len) ==
    p + IntOf(text_len) + ((4 - (IntOf(text_len) % 4)) % 4)

MatchAdvance(p, text_len) == p + IntOf(text_len)

\* raw_text = data[pos : pos + text_len]
RawText_AfterMarker(d, p, text_len) == Slice(d, p + 6, p + IntOf(text_len))

RawText(d, p, text_len) == Slice(d, p, p + IntOf(text_len))

(***************************************************************************)
(* Python str methods used by the parser, on sequences of code points.     *)
(***************************************************************************)
\* the characters str.isspace() holds of
Whitespace ==
    {9, 10, 11, 12, 13, 28, 29, 30, 31, 32, 133, 160, 5760, 8232, 8233, 8239,
     8287, 12288} \cup (8192..8202)

RECURSIVE LStrip(_)
LStrip(str) ==
    IF str # <<>> /\ Head(str) \in Whitespace THEN LStrip(Tail(str)) ELSE str

RECURSIVE RStrip(_)
RStrip(str) ==
    IF str # <<>> /\ str[Len(str)] \in Whitespace
    THEN RStrip(SubSeq(str, 1, Len(str) - 1))
    ELSE str

\* str.strip()
Strip(str) == RStrip(LStrip(str))

\* 1-based position of the first c in str, 0 if there is none
IndexOf(str, c) ==
    IF \E i \in 1..Len(str) : str[i] = c
    THEN Min({i \in 1..Len(str) : str[i] = c})
    ELSE 0

\* str.split(c)[0]
SplitFirst(str, c) ==
    IF IndexOf(str, c) = 0 THEN str ELSE SubSeq(str, 1, IndexOf(str, c) - 1)

\* str.split(c, 1)[1], for a str that contains c
SplitRest(str, c) == SubSeq(str, IndexOf(str, c) + 1, Len(str))

RECURSIVE SplitWords(_)
\* str.split() of a string s that does not begin with whitespace
SplitStripped(s) ==
    LET ends == {i \in 1..Len(s) : s[i] \in Whitespace}
        n == IF ends = {} THEN Len(s) ELSE Min(ends) - 1
    IN  IF s = <<>> THEN <<>>
        ELSE <<SubSeq(s, 1, n)>> \o SplitWords(SubSeq(s, n + 1, Len(s)))

\* str.split(): the maximal runs of non-whitespace characters
SplitWords(str) == With(LStrip(str), SplitStripped)

DEL == 8711       \* the del glyph of the header line
SEMICOLON == 59
LEFT_ARROW == 8592
NEWLINE == 10

\* `line = header_line.strip()` has been done:
\* `if line.startswith("∇"): line = line[1:].strip()`
StripDel(line) ==
    IF line # <<>> /\ Head(line) = DEL THEN Strip(Tail(line)) ELSE line

\* `line = line.split(";")[0].strip()`
CutLocals(line) == Strip(SplitFirst(line, SEMICOLON))

\* `if "←" in line: line = line.split("←", 1)[1].strip()`
CutResult(line) ==
    IF IndexOf(line, LEFT_ARROW) # 0
    THEN Strip(SplitRest(line, LEFT_ARROW))
    ELSE line

\* the words of the header line once the del, the locals and the result are
\* gone: `words = line.split()`
HeaderWords(line) ==
    With(Strip(line), LAMBDA line0 :
    With(StripDel(line0), LAMBDA line1 :
    With(CutLocals(line1), LAMBDA line2 :
    With(CutResult(line2), SplitWords))))

NameOfWords_First(words) == IF Len(words) >= 1 THEN words[1] ELSE <<>>

\* the three returns: words[1] of three or more, words[0] of one or two, ""
NameOfWords(words) ==
    IF Len(words) >= 3 THEN words[2]
    ELSE IF Len(words) >= 1 THEN words[1]
    ELSE <<>>

\* _parse_function_name(header_line); the empty string when no name is found
parse_function_name(line) == NameOfWords(HeaderWords(line))

RECURSIVE Decimal(_)
\* str(n) for n >= 0
Decimal(n) ==
    IF n < 10 THEN <<48 + n>> ELSE Append(Decimal(n \div 10), 48 + (n % 10))

\* f"_unnamed_{len(functions)}"
UnnamedName_OneBased(n) ==
    <<95, 117, 110, 110, 97, 109, 101, 100, 95>> \o Decimal(n + 1)

UnnamedName(n) == <<95, 117, 110, 110, 97, 109, 101, 100, 95>> \o Decimal(n)

\* the Function appended for a marker at pos whose header passed the checks
MakeFunction(d, p, text_len, fs) ==
    With(RawText(d, p, text_len), LAMBDA raw_text :
    With(decode(raw_text), LAMBDA text :
    With(parse_function_name(SplitFirst(text, NEWLINE)), LAMBDA parsed :
        [name   |-> IF parsed # <<>> THEN parsed ELSE UnnamedName(Len(fs)),
         text   |-> Strip(text),
         offset |-> p - 20,
         raw    |-> raw_text])))

\* which way one pass through the body of the while loop goes, for the
\* buffer d and the cursor i
Outcome(d, i) ==
    IF ~(i < Len(d)) THEN "exit"
    ELSE With(Find(d, i), LAMBDA p :
         With(ReadHeader(d, p - 20), LAMBDA h :
             IF p < 0 THEN "break"
             ELSE IF HeaderOffNegative(p - 20) THEN "no_header_room"
             ELSE IF h = StructError THEN "struct_error"
             ELSE IF BadConstOrRepeat(h) THEN "bad_header"
             ELSE IF BadLength(h) THEN "bad_length"
             ELSE IF PayloadTruncated(d, p, h.text_len) THEN "truncated"
             ELSE "match"))

RECURSIVE ScanFrom(_, _, _)
\* the functions list when the loop started at cursor i with the list fs ends
ScanFrom(d, i, fs) ==
    LET o == Outcome(d, i)
        p == Find(d, i)
        h == ReadHeader(d, p - 20)
    IN  IF o \in {"exit", "break"} THEN fs
        ELSE IF o = "match"
             THEN ScanFrom(d, MatchAdvance(p, h.text_len),
                           Append(fs, MakeFunction(d, p, h.text_len, fs)))
             ELSE ScanFrom(d, FalsePositiveAdvance(p), fs)

\* read_file(data).functions, and so read_functions(data)
read_functions(d) == ScanFrom(d, 0, <<>>)

(***************************************************************************)
(* tests/make_fixtures.py: how a well-formed sub-object is built.          *)
(***************************************************************************)
\* _make_sub_object(fn_text_bytes)
make_sub_object(fn_text_bytes) ==
    LET text_len == Len(fn_text_bytes)
        padding == (4 - (text_len % 4)) % 4
        total_size == 20 + text_len + padding
    IN  Pack(total_size) \o Pack(1) \o Pack(16785440) \o Pack(text_len)
            \o Pack(text_len) \o fn_text_bytes \o Zeros(padding)

\* a 20-byte header with the given fields
Header(total_size, const, type_flags, text_len, text_len2) ==
    Pack(total_size) \o Pack(const) \o Pack(type_flags) \o Pack(text_len)
        \o Pack(text_len2)

(***************************************************************************)
(* The scanner as a state machine: one step per pass through the loop.     *)
(***************************************************************************)
\* the loop condition fails: return
LoopExit ==
    /\ pc = "loop"
    /\ Outcome(data, idx) = "exit"
    /\ pc' = "done"
    /\ UNCHANGED <<data, idx, pos, functions, iterations, subs, blobs>>
    /\ UNCHANGED <<decVars, nameVars>>

\* no marker at or after the cursor: break, then return
NoMarker ==
    /\ pc = "loop"
    /\ Outcome(data, idx) = "break"
    /\ pos' = Find(data, idx)
    /\ iterations' = iterations + 1
    /\ pc' = "done"
    /\ UNCHANGED <<data, idx, functions, subs, blobs>>
    /\ UNCHANGED <<decVars, nameVars>>

\* the effect of every `idx = pos + 6; continue`
SkipMarker ==
    /\ pos' = Find(data, idx)
    /\ idx' = FalsePositiveAdvance(pos')
    /\ iterations' = iterations + 1
    /\ UNCHANGED <<data, functions, pc, subs, blobs>>
    /\ UNCHANGED <<decVars, nameVars>>

\* header_off < 0
SkipNoHeaderRoom ==
    /\ pc = "loop"
    /\ Outcome(data, idx) = "no_header_room"
    /\ SkipMarker

\* const != 1 or text_len != text_len2, or the reads raised struct.error
SkipBadHeader ==
    /\ pc = "loop"
    /\ Outcome(data, idx) \in {"struct_error", "bad_header"}
    /\ SkipMarker

\* text_len <= 0 or text_len > 10_000_000
SkipBadLength ==
    /\ pc = "loop"
    /\ Outcome(data, idx) = "bad_length"
    /\ SkipMarker

\* pos + text_len > len(data)
SkipTruncated ==
    /\ pc = "loop"
    /\ Outcome(data, idx) = "truncated"
    /\ SkipMarker

\* the header passed: append the Function and move past its text
Match ==
    /\ pc = "loop"
    /\ Outcome(data, idx) = "match"
    /\ \E p \in {Find(data, idx)} :
       \E h \in {ReadHeader(data, p - 20)} :
           /\ pos' = p
           /\ functions' = Append(functions, MakeFunction(data, p, h.text_len, functions))
           /\ idx' = MatchAdvance(p, h.text_len)
    /\ iterations' = iterations + 1
    /\ UNCHANGED <<data, pc, subs, blobs>>
    /\ UNCHANGED <<decVars, nameVars>>

ScanNext ==
    \/ LoopExit
    \/ NoMarker
    \/ SkipNoHeaderRoom
    \/ SkipBadHeader
    \/ SkipBadLength
    \/ SkipTruncated
    \/ Match

(***************************************************************************)
(* The buffers scanned.  Any byte sequence is an input of read_file; the   *)
(* model scans every concatenation of at most MaxPieces of the pieces      *)
(* below: well-formed sub-objects, headers that fail each check in turn,   *)
(* bare markers and filler.                                                *)
(***************************************************************************)
MaxPieces == 3

\* "    ∇ F": a niladic header line, padded by one byte
TextF == FUNCTION_MARKER \o <<70>>

\* "    ∇ A G B" and CR: a dyadic header line; the sub-object is 32 bytes long,
\* so its first byte is a space
TextG == FUNCTION_MARKER \o <<65, 32, 71, 32, 66, 13>>

\* "    ∇ ": no name can be derived
TextNone == FUNCTION_MARKER

\* "    ∇ _unnamed_1", CR, "X Y": a function of two lines whose own name has
\* the form of the synthesized names
TextU ==
    FUNCTION_MARKER \o <<95, 117, 110, 110, 97, 109, 101, 100, 95, 49>>
        \o <<13, 88, 32, 89>>

SubObjects ==
    {make_sub_object(TextF), make_sub_object(TextG), make_sub_object(TextNone),
     make_sub_object(TextU)}

\* the first five bytes of the marker: followed by a marker they make two
\* occurrences that overlap in one byte
MarkerHead == SubSeq(FUNCTION_MARKER, 1, 5)

Pieces ==
    SubObjects \cup
    { <<0>>,
      FUNCTION_MARKER,
      MarkerHead,
      Header(28, 1, 0, 6, 6),                                \* a header alone
      Header(28, 1, 0, 1, 1) \o FUNCTION_MARKER,             \* text of 1 byte
      Header(28, 0, 0, 6, 6) \o FUNCTION_MARKER,             \* const is not 1
      Header(28, 1, 0, 6, 7) \o FUNCTION_MARKER,             \* lengths differ
      Header(28, 1, 0, 0, 0) \o FUNCTION_MARKER,             \* length 0
      Header(28, 1, 0, MaxTextLen + 1, MaxTextLen + 1) \o FUNCTION_MARKER,
      Header(48, 1, 0, 26, 26) \o FUNCTION_MARKER,           \* text runs 20 bytes on
      Header(52, 1, 0, 32, 32) \o FUNCTION_MARKER }          \* text runs 26 bytes on

Buffers == {Flatten(ps) : ps \in SeqsUpTo(Pieces, MaxPieces)}

Init ==
    /\ data \in Buffers
    /\ idx = 0
    /\ pos = -1
    /\ functions = <<>>
    /\ iterations = 0
    /\ pc = "loop"
    /\ subs = <<>> /\ blobs = <<>>
    /\ dec_data = <<>> /\ dec_i = 0 /\ parts = <<>> /\ dec_out = <<>>
    /\ header_line = <<>> /\ name_out = <<>>

Next == ScanNext

Spec == Init /\ [][Next]_vars

\* read_file is sequential code: while the loop has not returned, it takes
\* its next step.  Behaviours are followed to their end over the buffers of
\* at most MaxFairPieces pieces.
MaxFairPieces == 2

FairBuffers == {Flatten(ps) : ps \in SeqsUpTo(Pieces, MaxFairPieces)}

FairInit ==
    /\ data \in FairBuffers
    /\ idx = 0
    /\ pos = -1
    /\ functions = <<>>
    /\ iterations = 0
    /\ pc = "loop"
    /\ subs = <<>> /\ blobs = <<>>
    /\ dec_data = <<>> /\ dec_i = 0 /\ parts = <<>> /\ dec_out = <<>>
    /\ header_line = <<>> /\ name_out = <<>>

SpecFair == FairInit /\ [][Next]_vars /\ WF_vars(Next)

(***************************************************************************)
(* Buffers built like the fixture make_data_and_functions: well-formed     *)
(* sub-objects with a blob before, between and after them.                 *)
(***************************************************************************)
MaxSubs == 2

\* a data blob in the manner of the fixture's fake_data: no marker in it
FakeData == Pack(64) \o Pack(1) \o Pack(33554432) \o Zeros(8)

Blobs ==
    { <<>>,
      FakeData,
      FUNCTION_MARKER,
      Header(28, 0, 0, 6, 6) \o FUNCTION_MARKER,
      Header(28, 1, 0, 0, 0) \o FUNCTION_MARKER,
      Header(52, 1, 0, 32, 32) \o FUNCTION_MARKER,
      Header(28, 1, 0, 1, 1) \o MarkerHead }

FixtureSubs == {make_sub_object(TextG), make_sub_object(TextNone)}

RECURSIVE Interleave(_, _)
\* bs[1] ss[1] bs[2] ss[2] ... bs[n+1], for Len(bs) = Len(ss) + 1
Interleave(bs, ss) ==
    IF ss = <<>> THEN Head(bs)
    ELSE Head(bs) \o Head(ss) \o Interleave(Tail(bs), Tail(ss))

InsertInit ==
    /\ subs \in UNION {[1..n -> FixtureSubs] : n \in 1..MaxSubs}
    /\ blobs \in [1..(Len(subs) + 1) -> Blobs]
    /\ data = Interleave(blobs, subs)
    /\ idx = 0
    /\ pos = -1
    /\ functions = <<>>
    /\ iterations = 0
    /\ pc = "loop"
    /\ dec_data = <<>> /\ dec_i = 0 /\ parts = <<>> /\ dec_out = <<>>
    /\ header_line = <<>> /\ name_out = <<>>

SpecInsert == InsertInit /\ [][ScanNext]_vars

(***************************************************************************)
(* Properties of the scanner.                                              *)
(***************************************************************************)
\* every position where the marker occurs in d
MarkerPositions(d) == {p \in 0..(Len(d) - 6) : MarkerAt(d, p)}

\* the four bytes of d at the 0-based offset o
FieldAt(d, o) == <<d[o + 1], d[o + 2], d[o + 3], d[o + 4]>>

\* the value of a four-byte field that is below 2^24, -1 for a larger one
SmallValue(f) == IF f[4] = 0 THEN f[1] + 256 * f[2] + 65536 * f[3] ELSE -1

\* the header at q - 20 passes validation for a marker at q >= 20:
\* constFlag == 1, textLength == textLengthRepeat,
\* 0 < textLength <= 10_000_000, q + textLength <= buffer length
\* (totalSize and typeFlags are not looked at)
HeaderValid(d, q) ==
    /\ q >= 20
    /\ FieldAt(d, q - 16) = <<1, 0, 0, 0>>
    /\ FieldAt(d, q - 8) = FieldAt(d, q - 4)
    /\ 0 < SmallValue(FieldAt(d, q - 8))
    /\ SmallValue(FieldAt(d, q - 8)) <= 10000000
    /\ q + SmallValue(FieldAt(d, q - 8)) <= Len(d)

\* a marker is found at or after the cursor and it is no valid sub-object
Anomaly(d, i) ==
    /\ i < Len(d)
    /\ Find(d, i) >= 0
    /\ ~HeaderValid(d, Find(d, i))

\* q lies in the payload range of a record emitted for an earlier marker
InsideEarlierPayload(fs, q) ==
    \E k \in 1..Len(fs) :
        /\ fs[k].offset + 20 < q
        /\ q < fs[k].offset + 20 + Len(fs[k].raw)

HasRecordAt(fs, h) == \E k \in 1..Len(fs) : fs[k].offset = h

\* C1: the scan is only ever running or returned, never in an error state:
\* the header reads never raise (struct.error does not occur), and a marker
\* whose header is missing, corrupt or truncated is handled by moving the
\* cursor to pos + 6, emitting nothing and continuing the loop.
C1_NeverRaises ==
    /\ [](pc \in {"loop", "done"})
    /\ [](pc = "loop" => Outcome(data, idx) # "struct_error")
    /\ [][(pc = "loop" /\ Anomaly(data, idx))
            => /\ pos' = Find(data, idx)
               /\ idx' = pos' + 6
               /\ functions' = functions
               /\ pc' = "loop"]_vars

\* the scan ended after skipping a marker at pos >= 20 with a bad header
C1_Witness ==
    /\ pc = "done"
    /\ pos >= 20
    /\ MarkerAt(data, pos)
    /\ ~HeaderValid(data, pos)
    /\ idx = pos + 6
    /\ functions = <<>>

\* C2: when the scan has ended, every marker at q >= 20 whose header passes
\* validation and that is not inside the payload of a record emitted for an
\* earlier marker has a record with byteOffset q - 20; the marker that a
\* 6-byte skip jumps over (the one overlapping at pos + 5) never validates.
C2_Completeness ==
    /\ pc = "done" =>
        \A q \in MarkerPositions(data) :
            (HeaderValid(data, q) /\ ~InsideEarlierPayload(functions, q))
                => HasRecordAt(functions, q - 20)
    /\ \A p \in MarkerPositions(data) :
            (p + 5) \in MarkerPositions(data) => ~HeaderValid(data, p + 5)

\* a false positive with an overlapping marker was skipped and a valid
\* sub-object after it was extracted
C2_Witness ==
    /\ pc = "done"
    /\ \E p \in MarkerPositions(data) :
        /\ (p + 5) \in MarkerPositions(data)
        /\ ~HasRecordAt(functions, p - 20)
        /\ \E q \in MarkerPositions(data) :
            q > p + 5 /\ HeaderValid(data, q) /\ HasRecordAt(functions, q - 20)

\* the fields of a record the insertion claim compares
Payloads(fs) == [k \in 1..Len(fs) |-> <<fs[k].name, fs[k].text, fs[k].raw>>]

\* 0-based offset in the buffer of the k-th blob of the fixture
RECURSIVE BlobStart(_, _, _)
BlobStart(bs, ss, k) ==
    IF k = 1 THEN 0
    ELSE BlobStart(bs, ss, k - 1) + Len(bs[k - 1]) + Len(ss[k - 1])

\* no occurrence of the marker begins at a byte of a blob
NoMarkerStartsInBlob ==
    \A k \in 1..Len(blobs) :
        \A p \in MarkerPositions(data) :
            ~(BlobStart(blobs, subs, k) <= p
                /\ p < BlobStart(blobs, subs, k) + Len(blobs[k]))

WellFormedSingle(d, n) ==
    /\ n >= 6
    /\ Len(d) >= 20 + n
    /\ Len(d) <= 20 + n + 3
    /\ FieldAt(d, 4) = <<1, 0, 0, 0>>
    /\ FieldAt(d, 12) = Pack(n)
    /\ FieldAt(d, 16) = Pack(n)
    /\ MarkerAt(d, 20)
    /\ \A i \in (20 + n + 1)..Len(d) : d[i] = 0

\* C4 as stated: the one record's text is the decode of the payload.
C4_Original ==
    pc = "done" =>
        \A n \in 6..Len(data) :
            WellFormedSingle(data, n)
                => /\ Len(functions) = 1
                   /\ functions[1].raw = Slice(data, 20, 20 + n)
                   /\ functions[1].text = decode(functions[1].raw)

\* C4: for a well-formed buffer whose text is at most 10_000_000 bytes long
\* the scan returns exactly one record; its rawPayload is the text bytes
\* and its text is the decode of the payload with leading and trailing
\* whitespace removed.
C4_RoundTrip ==
    pc = "done" =>
        \A n \in 6..Len(data) :
            (WellFormedSingle(data, n) /\ n <= 10000000)
                => /\ Len(functions) = 1
                   /\ functions[1].offset = 0
                   /\ functions[1].raw = Slice(data, 20, 20 + n)
                   /\ functions[1].text = Strip(decode(Slice(data, 20, 20 + n)))

\* the fixture sub-object for "    ∇ A G B" was scanned
C4_Witness ==
    /\ pc = "done"
    /\ data = make_sub_object(TextG)
    /\ WellFormedSingle(data, 12)
    /\ Len(functions) = 1
    /\ functions[1].raw = TextG
    /\ functions[1].text = <<8711, 32, 65, 32, 71, 32, 66>>

\* C5: a step of the scan leaves the record list alone or appends one
\* record to it; the new record's byteOffset is greater than every earlier
\* one's and its payload range begins where or after every earlier one ends.
C5_FileOrder ==
    [][\/ functions' = functions
       \/ /\ Len(functions') = Len(functions) + 1
          /\ SubSeq(functions', 1, Len(functions)) = functions
          /\ \A k \in 1..Len(functions) :
                /\ functions[k].offset < functions'[Len(functions')].offset
                /\ functions[k].offset + 20 + Len(functions[k].raw)
                       <= functions'[Len(functions')].offset + 20]_vars

\* three records, the second one's header lying in the payload of the first
C5_Witness ==
    /\ pc = "done"
    /\ Len(functions) = 3
    /\ functions[2].offset < functions[1].offset + 20 + Len(functions[1].raw)

\* C6: a marker found at pos < 20 is skipped: the cursor moves to pos + 6,
\* nothing is emitted and the loop goes on; no record has a negative
\* byteOffset; and a valid sub-object after such a marker is extracted.
C6_EarlyMarker ==
    /\ [][(pc = "loop" /\ idx < Len(data) /\ Find(data, idx) \in 0..19)
            => /\ idx' = Find(data, idx) + 6
               /\ functions' = functions
               /\ pc' = "loop"]_vars
    /\ [](\A k \in 1..Len(functions) : functions[k].offset >= 0)
    /\ [](pc = "done" =>
            \A p \in MarkerPositions(data), q \in MarkerPositions(data) :
                (/\ p < 20
                 /\ q >= p + 6
                 /\ HeaderValid(data, q)
                 /\ ~InsideEarlierPayload(functions, q))
                    => HasRecordAt(functions, q - 20))

\* a marker at position 0, then a valid sub-object that was extracted
C6_Witness ==
    /\ pc = "done"
    /\ MarkerAt(data, 0)
    /\ Len(functions) = 1
    /\ functions[1].offset = 6
    /\ HeaderValid(data, 26)

(***************************************************************************)
(* The decoder as a state machine: one step per iteration of the for loop. *)
(***************************************************************************)
MaxDecodeLen == 4

\* bytes of every branch of decode: unmapped, tab, LF, CR, ASCII, and the
\* bytes the table maps to the two guillemets
DecodeAlphabet == {0, 9, 10, 13, 48, 102, 174, 175}

DecodeInputs ==
    {<<b>> : b \in 0..255} \cup SeqsUpTo(DecodeAlphabet, MaxDecodeLen)

DecodeInit ==
    /\ dec_data \in DecodeInputs
    /\ dec_i = 0
    /\ parts = <<>>
    /\ dec_out = <<>>
    /\ pc = "decode"
    /\ data = <<>> /\ idx = 0 /\ pos = -1 /\ functions = <<>> /\ iterations = 0
    /\ subs = <<>> /\ blobs = <<>>
    /\ header_line = <<>> /\ name_out = <<>>

DecodeStep ==
    /\ pc = "decode"
    /\ dec_i < Len(dec_data)
    /\ parts' = parts \o DecodeParts(dec_data[dec_i + 1])
    /\ dec_i' = dec_i + 1
    /\ UNCHANGED <<dec_data, dec_out, pc>>
    /\ UNCHANGED <<scanVars, nameVars>>

DecodeReturn ==
    /\ pc = "decode"
    /\ dec_i = Len(dec_data)
    /\ dec_out' = Flatten(parts)
    /\ pc' = "decoded"
    /\ UNCHANGED <<dec_data, dec_i, parts>>
    /\ UNCHANGED <<scanVars, nameVars>>

DecodeNext == DecodeStep \/ DecodeReturn

SpecDecode == DecodeInit /\ [][DecodeNext]_vars

(***************************************************************************)
(* Properties of the decoder.                                              *)
(***************************************************************************)
IsPrintableAscii(b) == 32 <= b /\ b <= 126

\* the characters "0123456789abcdef"
LowerHexChars == <<48, 49, 50, 51, 52, 53, 54, 55, 56, 57, 97, 98, 99, 100, 101, 102>>

\* the value of a lowercase hexadecimal digit character, -1 if it is none
LowerHexValue(c) ==
    IF \E k \in 1..16 : LowerHexChars[k] = c
    THEN (CHOOSE k \in 1..16 : LowerHexChars[k] = c) - 1
    ELSE -1

\* int(XX, 16) of two lowercase hexadecimal digits, -1 if XX is not that
ParseHex2(c1, c2) ==
    IF LowerHexValue(c1) >= 0 /\ LowerHexValue(c2) >= 0
    THEN 16 * LowerHexValue(c1) + LowerHexValue(c2)
    ELSE -1

\* str has, at 1-based position i, a guillemet, two lowercase hexadecimal
\* digits and a closing guillemet
PlaceholderAt(str, i) ==
    /\ i + 3 <= Len(str)
    /\ str[i] = 171
    /\ str[i + 3] = 187
    /\ ParseHex2(str[i + 1], str[i + 2]) >= 0

\* str contains the placeholder whose digits parse back to b
HasPlaceholderFor(str, b) ==
    \E i \in 1..Len(str) :
        PlaceholderAt(str, i) /\ ParseHex2(str[i + 1], str[i + 2]) = b

\* a byte no rule but the last applies to
FallsThrough(b) ==
    /\ b \notin DOMAIN APL_MAP
    /\ ~IsPrintableAscii(b)
    /\ b # 9
    /\ b # 10

\* the image of one byte under the five rules, first match first
RuleImage(b) ==
    CASE b \in DOMAIN APL_MAP -> <<APL_MAP[b]>>
      [] b \notin DOMAIN APL_MAP /\ IsPrintableAscii(b) -> <<b>>
      [] b \notin DOMAIN APL_MAP /\ b = 9 -> <<9>>
      [] b \notin DOMAIN APL_MAP /\ b = 10 -> <<>>
      [] OTHER ->
            <<171, LowerHexChars[(b \div 16) + 1], LowerHexChars[(b % 16) + 1], 187>>

RECURSIVE ConcatImages(_, _)
\* the images of the first n bytes, concatenated in input order
ConcatImages(bytes, n) ==
    IF n = 0 THEN <<>> ELSE ConcatImages(bytes, n - 1) \o RuleImage(bytes[n])

\* C7: at every point of decode's loop the pieces collected so far are the
\* images of the bytes consumed so far under the five rules in their order,
\* and the returned string is the concatenation for the whole input; CR
\* gives a newline and the empty input the empty string.
C7_DecodePerByte ==
    /\ Flatten(parts) = ConcatImages(dec_data, dec_i)
    /\ pc = "decoded" =>
        /\ dec_i = Len(dec_data)
        /\ dec_out = ConcatImages(dec_data, Len(dec_data))
        /\ dec_out = decode(dec_data)
        /\ dec_data = <<13>> => dec_out = <<10>>
        /\ dec_data = <<>> => dec_out = <<>>

\* CR, an ASCII digit, a dropped LF and an unmapped byte in one input
C7_Witness ==
    /\ pc = "decoded"
    /\ dec_data = <<13, 48, 10, 0>>
    /\ dec_out = <<10, 48, 171, 48, 48, 187>>

\* C8: no key of the table lies in 0x20..0x7E, and decode of a single byte
\* of that range is the one character with the same code.
C8_AsciiPassthrough ==
    /\ \A b \in 32..126 : b \notin DOMAIN APL_MAP
    /\ (pc = "decoded" /\ Len(dec_data) = 1 /\ IsPrintableAscii(dec_data[1]))
        => dec_out = <<dec_data[1]>>

C8_Witness ==
    /\ pc = "decoded"
    /\ dec_data = <<126>>
    /\ dec_out = <<126>>

\* C9 as stated: every byte with no entry in the table decodes to a string
\* containing its placeholder.
C9_Original ==
    (pc = "decoded" /\ Len(dec_data) = 1 /\ dec_data[1] \notin DOMAIN APL_MAP)
        => HasPlaceholderFor(dec_out, dec_data[1])

\* C9: a byte with no entry in the table that is neither printable ASCII
\* nor tab nor LF decodes to exactly its placeholder: a guillemet, the two
\* lowercase hexadecimal digits of the byte, a guillemet; the digits parse
\* back to the byte.
C9_HexEscapeInvertible ==
    (pc = "decoded" /\ Len(dec_data) = 1 /\ FallsThrough(dec_data[1]))
        => /\ Len(dec_out) = 4
           /\ PlaceholderAt(dec_out, 1)
           /\ ParseHex2(dec_out[2], dec_out[3]) = dec_data[1]
           /\ HasPlaceholderFor(dec_out, dec_data[1])

C9_Witness ==
    /\ pc = "decoded"
    /\ dec_data = <<127>>
    /\ dec_out = <<171, 55, 102, 187>>

RECURSIVE PlaceholderBytes(_, _)
\* the bytes read back from the placeholder-shaped substrings of str, from
\* 1-based position i on, left to right
PlaceholderBytes(str, i) ==
    IF i > Len(str) THEN <<>>
    ELSE IF PlaceholderAt(str, i)
         THEN <<ParseHex2(str[i + 1], str[i + 2])>> \o PlaceholderBytes(str, i + 4)
         ELSE PlaceholderBytes(str, i + 1)

\* the bytes of the input that fall through to the placeholder rule
UnmappedBytes(bytes) == SelectSeq(bytes, FallsThrough)

\* C10 as stated: the placeholders of the output give back exactly the
\* unmapped bytes of the input, in order, and inputs with the same output
\* have the same unmapped bytes.
C10_UnmappedRecoverable ==
    pc = "decoded" =>
        /\ PlaceholderBytes(dec_out, 1) = UnmappedBytes(dec_data)
        /\ \A other \in DecodeInputs :
               decode(other) = dec_out
                   => UnmappedBytes(other) = UnmappedBytes(dec_data)

(***************************************************************************)
(* Properties of the records the scanner returns.                          *)
(***************************************************************************)
\* the name of the record f was synthesized: nothing could be derived from
\* the first line of its decoded text
Synthesized(f) == parse_function_name(SplitFirst(decode(f.raw), NEWLINE)) = <<>>

\* C11: within one scan a synthesized name ("_unnamed_" and the number of
\* records emitted before it) never equals the name of another record of
\* the same scan, be that other name synthesized or parsed from a header
\* line.
C11_PlaceholderUnique ==
    \A k \in 1..Len(functions) :
        Synthesized(functions[k]) =>
            \A j \in 1..Len(functions) :
                j # k => functions[j].name # functions[k].name

\* C12: every record returned has an offset h >= 0 with the marker at
\* h + 20 and a header at h that passes validation (constFlag 1, the two
\* lengths equal, 0 < textLength <= 10_000_000, h + 20 + textLength within
\* the buffer), and its raw payload is exactly the textLength bytes
\* buffer[h+20 : h+20+textLength].
C12_RecordsSound ==
    \A k \in 1..Len(functions) :
        LET h == functions[k].offset
            textLength == SmallValue(FieldAt(data, h + 12))
        IN  /\ 0 <= h
            /\ (h + 20) \in MarkerPositions(data)
            /\ HeaderValid(data, h + 20)
            /\ Len(functions[k].raw) = textLength
            /\ \A i \in 1..textLength :
                   functions[k].raw[i] = data[h + 20 + i]

\* the scan returned a record of one byte and a record whose payload ends
\* with the buffer, and skipped a marker whose header is not valid
C12_Witness ==
    /\ pc = "done"
    /\ \E k \in 1..Len(functions) : Len(functions[k].raw) = 1
    /\ \E k \in 1..Len(functions) :
           functions[k].offset + 20 + Len(functions[k].raw) = Len(data)
    /\ \E q \in MarkerPositions(data) :
           ~HeaderValid(data, q) /\ ~InsideEarlierPayload(functions, q)

\* C14: the scan terminates on every buffer.  Every pass through the loop
\* that does not end it finds the marker at pos >= the old cursor and moves
\* the cursor strictly forward, to pos + 6 when nothing is emitted and to
\* pos + textLength when a record is; the loop body is entered at most as
\* many times as the buffer has bytes; and the scan ends only with the
\* cursor at the end of the buffer or with no marker at or after the cursor.
C14_Terminates ==
    /\ <>(pc = "done")
    /\ [][pc' = "loop" =>
            /\ pos' >= idx
            /\ idx' > idx
            /\ idx' = IF functions' = functions
                      THEN pos' + 6
                      ELSE pos' + Len(functions'[Len(functions')].raw)]_vars
    /\ [](iterations <= Len(data))
    /\ [](pc = "done" =>
            \/ idx >= Len(data)
            \/ ~\E q \in MarkerPositions(data) : q >= idx)

\* a scan that skipped a marker and emitted a record has ended by finding
\* no further marker before the end of the buffer
C14_Witness ==
    /\ pc = "done"
    /\ iterations >= 3
    /\ Len(functions) >= 1
    /\ Len(functions) < iterations - 1
    /\ idx < Len(data)

\* the last pass through the loop body emitted the record of the marker
\* at pos
LastPassMatched == pos >= 20 /\ HasRecordAt(functions, pos - 20)

\* C15 as stated: a false-positive recovery leaves the cursor at exactly
\* pos + 6, and a match leaves it at least 6 bytes beyond pos.
C15_Original ==
    pos >= 0 =>
        IF LastPassMatched THEN idx >= pos + 6 ELSE idx = pos + 6

\* C15, amended: a false-positive recovery leaves the cursor at exactly
\* pos + 6; a match leaves it at exactly pos + textLength, which is at least
\* 1 byte beyond pos, and at least 6 bytes beyond pos when textLength >= 6.
C15_CursorAdvance ==
    pos >= 0 =>
        IF LastPassMatched
        THEN LET textLength == SmallValue(FieldAt(data, pos - 8))
             IN  /\ idx = pos + textLength
                 /\ idx >= pos + 1
                 /\ textLength >= 6 => idx >= pos + 6
        ELSE idx = pos + 6

\* a match on a text shorter than the marker moved the cursor fewer than 6
\* bytes, and a later pass recovered from a false positive
C15_Witness ==
    /\ \E k \in 1..Len(functions) : Len(functions[k].raw) < 6
    /\ pos >= 0
    /\ ~LastPassMatched
    /\ idx = pos + 6

(***************************************************************************)
(* _parse_function_name as a state machine: the call and its return.       *)
(***************************************************************************)
MaxLineParts == 5

\* what header lines are put together from: a space, the del, the semicolon,
\* the left arrow, words with and without a space beside them, and the
\* beginning "∇ R←" of the header of a function with a result
LineParts == { <<32>>, <<DEL>>, <<SEMICOLON>>, <<LEFT_ARROW>>, <<70>>,
               <<65, 32>>, <<32, 66>>, <<DEL, 32, 82, LEFT_ARROW>> }

HeaderLines == {Flatten(ps) : ps \in SeqsUpTo(LineParts, MaxLineParts)}

NameInit ==
    /\ header_line \in HeaderLines
    /\ name_out = <<>>
    /\ pc = "parse_name"
    /\ data = <<>> /\ idx = 0 /\ pos = -1 /\ functions = <<>> /\ iterations = 0
    /\ subs = <<>> /\ blobs = <<>>
    /\ dec_data = <<>> /\ dec_i = 0 /\ parts = <<>> /\ dec_out = <<>>

\* the whole of _parse_function_name(header_line)
ParseName ==
    /\ pc = "parse_name"
    /\ name_out' = parse_function_name(header_line)
    /\ pc' = "name_parsed"
    /\ UNCHANGED header_line
    /\ UNCHANGED <<scanVars, decVars>>

NameNext == ParseName

SpecName == NameInit /\ [][NameNext]_vars

(***************************************************************************)
(* Properties of the name derivation.                                      *)
(***************************************************************************)
\* the positions of str where a token (a maximal run of characters that are
\* not whitespace) begins
TokenStarts(str) ==
    {a \in 1..Len(str) :
        str[a] \notin Whitespace /\ (a = 1 \/ str[a - 1] \in Whitespace)}

\* the token of str that begins at a
TokenAt(str, a) ==
    LET stops == {b \in a..Len(str) : str[b] \in Whitespace}
    IN  SubSeq(str, a, IF stops = {} THEN Len(str) ELSE Min(stops) - 1)

\* the n-th token of str
Token(str, n) ==
    LET a == CHOOSE x \in TokenStarts(str) :
                Cardinality({y \in TokenStarts(str) : y < x}) = n - 1
    IN  TokenAt(str, a)

\* str without its leading whitespace and then without one leading del
AfterDel(str) ==
    LET solid == {i \in 1..Len(str) : str[i] \notin Whitespace}
        first == IF solid = {} THEN Len(str) + 1 ELSE Min(solid)
    IN  IF first <= Len(str) /\ str[first] = DEL
        THEN SubSeq(str, first + 1, Len(str))
        ELSE SubSeq(str, first, Len(str))

\* str up to its first semicolon
BeforeSemicolon(str) ==
    LET semis == {i \in 1..Len(str) : str[i] = SEMICOLON}
    IN  IF semis = {} THEN str ELSE SubSeq(str, 1, Min(semis) - 1)

\* what follows the first left arrow of str, str itself if it has none
AfterArrow(str) ==
    LET arrows == {i \in 1..Len(str) : str[i] = LEFT_ARROW}
    IN  IF arrows = {} THEN str ELSE SubSeq(str, Min(arrows) + 1, Len(str))

\* the part of the header line the name is taken from
NamePart(str) == AfterArrow(BeforeSemicolon(AfterDel(str)))

\* the name the derivation rule gives for the line str: the second token of
\* three or more, the first token of one or two, the empty string of none
DerivedName(str) ==
    LET part == NamePart(str)
        n == Cardinality(TokenStarts(part))
    IN  IF n >= 3 THEN Token(part, 2)
        ELSE IF n >= 1 THEN Token(part, 1)
        ELSE <<>>

\* C13: the name is derived from the first line by trimming it and removing
\* one leading del, cutting at the first semicolon, keeping what follows the
\* first left arrow if one remains, and splitting on whitespace: the second
\* token of three or more, the first token of one or two, the empty string
\* of none.
C13_NameDerivation ==
    pc = "name_parsed" => name_out = DerivedName(header_line)

\* a line with a del, a result before an arrow, three tokens and a local
\* after a semicolon gave the middle token
C13_Witness ==
    /\ pc = "name_parsed"
    /\ header_line # <<>>
    /\ Head(header_line) = DEL
    /\ IndexOf(header_line, LEFT_ARROW) # 0
    /\ IndexOf(header_line, SEMICOLON) > IndexOf(header_line, LEFT_ARROW)
    /\ Cardinality(TokenStarts(NamePart(header_line))) = 3
    /\ name_out = <<70>>

(***************************************************************************)
(* Properties of the fields of a record.                                   *)
(***************************************************************************)
\* str without its leading and trailing whitespace
Trimmed(str) ==
    LET solid == {i \in 1..Len(str) : str[i] \notin Whitespace}
        last == CHOOSE i \in solid : \A j \in solid : j <= i
    IN  IF solid = {} THEN <<>> ELSE SubSeq(str, Min(solid), last)

\* str up to its first newline
FirstLine(str) ==
    LET breaks == {i \in 1..Len(str) : str[i] = NEWLINE}
    IN  IF breaks = {} THEN str ELSE SubSeq(str, 1, Min(breaks) - 1)

\* "_unnamed_" and the decimal digits of k, for k below 100
PlaceholderName(k) ==
    <<95, 117, 110, 110, 97, 109, 101, 100, 95>> \o
        (IF k < 10 THEN <<48 + k>> ELSE <<48 + (k \div 10), 48 + (k % 10)>>)

\* C16: of every record returned, text is decode(rawPayload) without its
\* leading and trailing whitespace, and name is the name derived from the
\* first line (up to the first newline) of the untrimmed decode(rawPayload)
\* or, when none is derived, the placeholder built from the 0-based position
\* of the record in the result list.
C16_FieldConsistency ==
    \A k \in 1..Len(functions) :
        LET decoded == ConcatImages(functions[k].raw, Len(functions[k].raw))
            derived == DerivedName(FirstLine(decoded))
        IN  /\ functions[k].text = Trimmed(decoded)
            /\ functions[k].name =
                   IF derived # <<>> THEN derived ELSE PlaceholderName(k - 1)

\* the scan returned a function of two lines, named by its first line and
\* with a text that has lost the leading spaces, and then a record without
\* a name, which got the placeholder of position 1
C16_Witness ==
    /\ pc = "done"
    /\ Len(functions) >= 2
    /\ functions[1].raw = TextU
    /\ functions[1].name = <<95, 117, 110, 110, 97, 109, 101, 100, 95, 49>>
    /\ Len(functions[1].text) < Len(decode(functions[1].raw))
    /\ functions[2].raw = TextNone
    /\ functions[2].name = PlaceholderName(1)

====
